---- MODULE Spec2Model ----
(***************************************************************************)
(* World-happiness map: the load pipeline (name reconciliation, join,      *)
(* per-country index, factor maxima), the year slider and map click        *)
(* handlers, and the detail panel (nearest-year lookup, factor bars,       *)
(* pre/post period comparison, historical events).                         *)
(*                                                                         *)
(* Conventions of the model:                                               *)
(*   - a JavaScript string that the code inspects character by character   *)
(*     (a country name) is a sequence of one-character strings;            *)
(*   - a nullable number is <<>> (null / undefined) or <<v>>;              *)
(*   - a missing country code (null) is the string NoISO;                  *)
(*   - a mean is kept exact as the pair [num, den].                        *)
(***************************************************************************)
EXTENDS Integers, Sequences, FiniteSets, TLC

----------------------------------------------------------------------------
(* Bounds of the explored inputs                                           *)

MaxRows == 2      \* rows of the tabular source in the interaction inputs
MaxLen == 3       \* rows of one country's series in the lookup inputs
MaxNameLen == 2   \* characters of a raw name in the reconciliation inputs
MaxTexts == 2     \* texts of one event entry in the event inputs

----------------------------------------------------------------------------
(* Values                                                                  *)

Null == <<>>
Some(v) == <<v>>
NoISO == "null"

Dot == "."
Apos == "'"
RQuote == "rq"    \* U+2019, the typographic apostrophe
Space == " "

factorKeys == <<"gdp", "social", "healthy", "freedom", "generosity", "corruption">>
FactorKeySet == {factorKeys[i] : i \in 1..Len(factorKeys)}

PreStart == 2015
PreEnd == 2019
PostStart == 2020

----------------------------------------------------------------------------
(* Generic sequence helpers standing for the Array methods the code uses   *)

Range(s) == {s[i] : i \in 1..Len(s)}

\* Array.prototype.reverse
Reverse(s) == [i \in 1..Len(s) |-> s[Len(s) + 1 - i]]

\* Array.prototype.find, hits being the positions of s that satisfy the
\* predicate: <<>> (undefined) or <<the first element that satisfies it>>
Find(s, hits) ==
    IF hits = {} THEN <<>>
    ELSE <<s[CHOOSE i \in hits : \A j \in hits : i <= j]>>

\* String.prototype.trim on a character sequence
RECURSIVE TrimLeft(_)
TrimLeft(s) ==
    IF s # <<>> /\ Head(s) = Space THEN TrimLeft(Tail(s)) ELSE s

Trim(s) == Reverse(TrimLeft(Reverse(TrimLeft(s))))

----------------------------------------------------------------------------
(* Name reconciliation                                                     *)

\* The name -> ISO3 dictionary of isoMap.js (a small stand-in for it).
countryToISO3 ==
    (<<"a">> :> "AAA") @@ (<<"b", Apos>> :> "BBB") @@ (<<"c", Dot>> :> "CCC")

\* countryToISO3[name]: undefined (<<>>) when name is no key
DictGet(name) ==
    IF name \in DOMAIN countryToISO3 THEN <<countryToISO3[name]>> ELSE <<>>

\* name.replace(/\./g,'').replace(/[’']/g,"'")
NormalizeName(name) ==
    LET noDots == SelectSeq(name, LAMBDA c : c # Dot)
    IN  [i \in 1..Len(noDots) |->
            IF noDots[i] \in {RQuote, Apos} THEN Apos ELSE noDots[i]]

\* a || b on lookup results
OrElse(a, b) == IF a # <<>> THEN a ELSE b

\* iso || null
IsoOrNull(r) == IF r = <<>> THEN NoISO ELSE r[1]

\* world.features.forEach: the code of one polygon feature from its raw name
GeoISO(rawName) ==
    LET name == IF rawName # <<>> THEN Trim(rawName) ELSE <<>>
    IN  IF name # <<>>
        THEN IsoOrNull(OrElse(DictGet(name), DictGet(NormalizeName(name))))
        ELSE NoISO

\* the row function of d3.dsv: country = countryName ? countryName.trim() : null
RowCountry(rawName) == IF rawName # <<>> THEN Trim(rawName) ELSE <<>>

\* the tabular lookup with the normalised second try of the polygon lookup
CsvISO_Normalizing(country) ==
    IF country # <<>>
    THEN IsoOrNull(OrElse(DictGet(country), DictGet(NormalizeName(country))))
    ELSE NoISO

\* happiness.forEach: the code of one tabular row from its (trimmed) country
CsvISO(country) ==
    IF country # <<>> THEN IsoOrNull(DictGet(country)) ELSE NoISO

----------------------------------------------------------------------------
(* d3 helpers                                                              *)

\* Array.prototype.sort with d3.ascending / d3.descending on an integer key,
\* keys[i] being the key of s[i]: a stable insertion sort, ascending in the key
StableSort(s, keys) ==
    LET Insert(t, i) ==
            LET p == Cardinality({j \in 1..Len(t) : keys[t[j]] <= keys[i]})
            IN  SubSeq(t, 1, p) \o <<i>> \o SubSeq(t, p + 1, Len(t))
        order[n \in 0..Len(s)] ==
            IF n = 0 THEN <<>> ELSE Insert(order[n - 1], n)
    IN  [j \in 1..Len(s) |-> s[order[Len(s)][j]]]

\* d3.max over nullable numbers: nulls are skipped, undefined when none is left
D3Max(vals) ==
    LET nums == {vals[i][1] : i \in {j \in 1..Len(vals) : vals[j] # Null}}
    IN  IF nums = {} THEN Null
        ELSE Some(CHOOSE m \in nums : \A n \in nums : n <= m)

\* d3.mean over nullable numbers: nulls are skipped, undefined when none is left
D3Mean(vals) ==
    LET idx == {j \in 1..Len(vals) : vals[j] # Null}
        sum[n \in 0..Len(vals)] ==
            IF n = 0 THEN 0
            ELSE sum[n - 1] + (IF n \in idx THEN vals[n][1] ELSE 0)
    IN  IF idx = {} THEN Null
        ELSE Some([num |-> sum[Len(vals)], den |-> Cardinality(idx)])

\* d3.group(rows, d => d.iso3): code -> its rows, in source order
D3Group(rows) ==
    [iso \in {rows[i].iso3 : i \in 1..Len(rows)} |->
        SelectSeq(rows, LAMBDA r : r.iso3 = iso)]

----------------------------------------------------------------------------
(* loadData                                                                *)

\* the row function of d3.dsv, then d.iso3 = ...
LoadRow(raw) ==
    LET country == RowCountry(raw.name)
    IN  [country |-> country, year |-> raw.year, rank |-> raw.rank,
         ladder |-> raw.ladder, f |-> raw.f, iso3 |-> CsvISO(country)]

\* f.properties.iso_a3 = iso || null
LoadFeature(raw) == [name |-> raw.name, iso_a3 |-> GeoISO(raw.name)]

\* new Set(world.features.map(f => f.properties.iso_a3).filter(Boolean))
GeoISOSet(features) == {features[i].iso_a3 : i \in 1..Len(features)} \ {NoISO}

\* the filter without the geoISOSet test: any row with a code is kept
FilterRows_CodeOnly(happiness, features) ==
    SelectSeq(happiness, LAMBDA d : d.iso3 # NoISO)

\* happiness.filter(d => d.iso3 && geoISOSet.has(d.iso3))
FilterRows(happiness, features) ==
    SelectSeq(happiness,
              LAMBDA d : d.iso3 # NoISO /\ d.iso3 \in GeoISOSet(features))

\* the accessor without the ?? 0: a null stays a null, which d3.max skips
FactorAccessor_NullSkipped(v) == v

\* d => d[f.key] ?? 0
FactorAccessor(v) == IF v = Null THEN Some(0) ELSE v

\* d3.max(filtered, d => d[f.key] ?? 0) || 1
FactorMaxOf(filtered, key) ==
    LET m == D3Max([i \in 1..Len(filtered) |-> FactorAccessor(filtered[i].f[key])])
    IN  IF m = Null \/ m[1] = 0 THEN 1 ELSE m[1]

FactorMax(filtered) == [k \in FactorKeySet |-> FactorMaxOf(filtered, k)]

\* the value loadData resolves to (byISO is its side effect)
LoadData(csv, geo) ==
    LET world == [i \in 1..Len(geo) |-> LoadFeature(geo[i])]
        happiness == [i \in 1..Len(csv) |-> LoadRow(csv[i])]
        filtered == FilterRows(happiness, world)
    IN  [world |-> world, filtered |-> filtered,
         byISO |-> D3Group(filtered), factorMax |-> FactorMax(filtered)]

----------------------------------------------------------------------------
(* drawMap                                                                 *)

NeutralFill == <<>>
colorScale(rank) == <<rank>>

\* the year's rank of a code with the first of several rows winning
YearRank_FirstWins(data, year, iso) ==
    LET hits == {i \in 1..Len(data) : data[i].year = year /\ data[i].iso3 = iso}
    IN  IF hits = {} THEN Null
        ELSE Some(data[CHOOSE i \in hits : \A j \in hits : i <= j].rank)

\* new Map(happinessData.filter(d => d.year === year).map(d => [d.iso3, d.rank]))
\* then .get(iso): a later row of the same code and year replaces an earlier one
YearRank(data, year, iso) ==
    LET hits == {i \in 1..Len(data) : data[i].year = year /\ data[i].iso3 = iso}
    IN  IF hits = {} THEN Null
        ELSE Some(data[CHOOSE i \in hits : \A j \in hits : j <= i].rank)

\* rank ? colorScale(rank) : neutral
FillOf(data, year, feature) ==
    LET rank == YearRank(data, year, feature.iso_a3)
    IN  IF rank # Null /\ rank[1] # 0 THEN colorScale(rank[1]) ELSE NeutralFill

\* the fills of the paths after drawMap(year), one per feature
DrawMap(features, data, year) ==
    [drawn |-> TRUE, year |-> Some(year),
     fill |-> [i \in 1..Len(features) |-> FillOf(data, year, features[i])]]

----------------------------------------------------------------------------
(* showCountryPanel                                                        *)

\* byISO.get(iso3).slice().sort((a,b) => d3.ascending(a.year,b.year))
SortedRows(rows) == StableSort(rows, [i \in 1..Len(rows) |-> rows[i].year])

\* rows.find(r => r.year === year)
FindExact(rows, year) ==
    Find(rows, {i \in 1..Len(rows) : rows[i].year = year})

\* the previous-year search without the reversal: the first row at or before year
FindPrevious_Unreversed(rows, year) ==
    Find(rows, {i \in 1..Len(rows) : rows[i].year <= year})

\* rows.slice().reverse().find(r => r.year <= year)
FindPrevious(rows, year) ==
    LET reversed == Reverse(rows)
    IN  Find(reversed, {i \in 1..Len(reversed) : reversed[i].year <= year})

\* the lookup with rows[0] as its last resort
Lookup_EarliestFallback(rows, year) ==
    OrElse(FindExact(rows, year),
           OrElse(FindPrevious(rows, year),
                  IF rows = <<>> THEN <<>> ELSE <<rows[1]>>))

\* ... || ... || rows[rows.length - 1]
Lookup(rows, year) ==
    OrElse(FindExact(rows, year),
           OrElse(FindPrevious(rows, year),
                  IF rows = <<>> THEN <<>> ELSE <<rows[Len(rows)]>>))

\* row && row.ladder ? d3.format(".2f")(row.ladder) : ""
LadderToday(row) ==
    IF row # <<>> /\ row[1].ladder # Null /\ row[1].ladder[1] # 0
    THEN row[1].ladder ELSE Null

\* factorKeys.map(f => ({ key, value: row[f.key] ?? 0, max: factorMaxByKey[f.key] ?? 1 }))
FactorValues(row, fmax) ==
    [i \in 1..Len(factorKeys) |->
        LET k == factorKeys[i]
        IN  [key |-> k,
             value |-> IF row.f[k] = Null THEN 0 ELSE row.f[k][1],
             max |-> IF k \in DOMAIN fmax THEN fmax[k] ELSE 1]]

\* rows.filter(r => r.year >= lo && r.year <= hi); hi = <<>> leaves the range open
InPeriod(rows, lo, hi) ==
    SelectSeq(rows, LAMBDA r : r.year >= lo /\ (hi = <<>> \/ r.year <= hi[1]))

\* the average with a null ladder score counted as 0
PeriodAverage_NullAsZero(rows, lo, hi) ==
    LET years == SelectSeq(rows, LAMBDA r : r.year >= lo /\ (hi = <<>> \/ r.year <= hi[1]))
    IN  IF Len(years) # 0
        THEN D3Mean([i \in 1..Len(years) |->
                        IF years[i].ladder = Null THEN Some(0) ELSE years[i].ladder])
        ELSE Null

\* years.length ? d3.mean(years, r => r.ladder) : null
PeriodAverage(rows, lo, hi) ==
    LET years == InPeriod(rows, lo, hi)
    IN  IF Len(years) # 0
        THEN D3Mean([i \in 1..Len(years) |-> years[i].ladder])
        ELSE Null

\* drawCovidComparison(rows): the "no data" paragraph, or one bar per period
\* whose average is not null
DrawCovidComparison(rows) ==
    LET preAvg == PeriodAverage(rows, PreStart, Some(PreEnd))
        postAvg == PeriodAverage(rows, PostStart, Null)
        data == SelectSeq(<<[period |-> "pre", value |-> preAvg],
                            [period |-> "post", value |-> postAvg]>>,
                          LAMBDA d : d.value # Null)
    IN  IF preAvg = Null /\ postAvg = Null
        THEN [nodata |-> TRUE, bars |-> <<>>]
        ELSE [nodata |-> FALSE, bars |-> data]

\* Object.entries(eventsData[iso3]).map(([y, arr]) => ({ y: +y, ev: arr })):
\* integer keys are enumerated in ascending order
EventEntries(log) ==
    [i \in 1..Cardinality(DOMAIN log) |->
        LET y == CHOOSE k \in DOMAIN log :
                     Cardinality({j \in DOMAIN log : j < k}) = i - 1
        IN  [y |-> y, ev |-> log[y]]]

\* .sort((a,b) => d3.descending(a.y, b.y))
SortedEntries(log) ==
    LET entries == EventEntries(log)
    IN  StableSort(entries, [i \in 1..Len(entries) |-> 0 - entries[i].y])

\* the filter without the fallback to all entries
VisibleEntries_NoFallback(entries, activeYear) ==
    SelectSeq(entries, LAMBDA e : e.y <= activeYear)

\* entries.filter(e => e.y <= activeYear), or all entries when that is empty
VisibleEntries(entries, activeYear) ==
    LET filtered == SelectSeq(entries, LAMBDA e : e.y <= activeYear)
    IN  IF Len(filtered) # 0 THEN filtered ELSE entries

\* one event block: the year, the "active" class and the texts with the
\* "headline" class on the first text of an active block
EventBlock(e, activeYear) ==
    LET isActive == (e.y = activeYear)
    IN  [y |-> e.y, active |-> isActive,
         texts |-> [i \in 1..Len(e.ev) |->
                      [txt |-> e.ev[i], headline |-> isActive /\ i = 1]]]

\* the #history element: the blocks, or the "Keine Ereignisse" note
ShowHistory(events, iso3, activeYear) ==
    IF iso3 \in DOMAIN events
    THEN LET list == VisibleEntries(SortedEntries(events[iso3]), activeYear)
         IN  [note |-> FALSE,
              blocks |-> [i \in 1..Len(list) |-> EventBlock(list[i], activeYear)]]
    ELSE [note |-> TRUE, blocks |-> <<>>]

\* the detail panel before any country was shown
EmptyPanel ==
    [iso |-> NoISO, title |-> <<>>, ladderToday |-> Null, spark |-> <<>>,
     marker |-> <<>>, emptyNote |-> TRUE, factors |-> <<>>,
     covid |-> [nodata |-> FALSE, bars |-> <<>>],
     history |-> [note |-> FALSE, blocks |-> <<>>]]

\* if (!iso3 || !byISO.has(iso3)) return;
PanelGuard(index, iso3) == iso3 # NoISO /\ iso3 \in DOMAIN index

\* showCountryPanel(iso3, displayName) with the slider at year: the panel's
\* content afterwards (old is its content before); iso records the code whose
\* rows the content was computed from
ShowCountryPanel(old, index, fmax, events, year, iso3, displayName) ==
    IF ~PanelGuard(index, iso3) THEN old
    ELSE LET rows == SortedRows(index[iso3])
             row == Lookup(rows, year)
         IN  [iso |-> iso3, title |-> displayName,
              ladderToday |-> LadderToday(row), spark |-> rows,
              marker |-> row, emptyNote |-> FALSE,
              factors |-> FactorValues(row[1], fmax),
              covid |-> DrawCovidComparison(rows),
              history |-> ShowHistory(events, iso3, year)]

----------------------------------------------------------------------------
(* State                                                                   *)

VARIABLES
    csvSource,       \* /data/data_happinessreport.csv, as parsed rows
    geoSource,       \* /data/world.geo.json, the features' raw names
    eventsSource,    \* /data/events.json: code -> (year -> texts)
    hasObserver,     \* "IntersectionObserver" in window && vizSection
    sliderDomain,    \* the years the #yearSlider element can take
    sliderValue,     \* slider.property("value")
    observing,       \* the observer still observes #viz
    initialized,     \* let initialized
    pc,              \* progress of loadData: idle, csv, geo, events, ready, failed
    loadStarts,      \* number of loadData calls so far
    listeners,       \* number of times slider.on("input", ...) ran
    worldData,       \* worldData.features
    happinessData,   \* let happinessData
    byISO,           \* let byISO
    factorMaxByKey,  \* let factorMaxByKey
    eventsData,      \* let eventsData
    selectedISO,     \* let selectedISO
    yearLabel,       \* the text of #yearLabel set by the handler
    map,             \* the paths of g.map-layer: drawn, for which year, fills
    panel            \* the detail panel's content

inputs == <<csvSource, geoSource, eventsSource, hasObserver, sliderDomain>>
loaded == <<worldData, happinessData, byISO, factorMaxByKey, eventsData>>
lifecycle == <<observing, initialized, pc, loadStarts, listeners>>
views == <<yearLabel, map, panel>>
vars == <<inputs, sliderValue, lifecycle, loaded, selectedISO, views>>

----------------------------------------------------------------------------
(* Initial state: the module's top level has run                           *)

\* initViz() without the early return on the initialized flag
InitViz_Unguarded(st) ==
    [initialized |-> TRUE, pc |-> "csv", loadStarts |-> st.loadStarts + 1]

\* initViz(): guarded by the initialized flag, starts loadData
InitViz(st) ==
    IF st.initialized THEN st
    ELSE [initialized |-> TRUE, pc |-> "csv", loadStarts |-> st.loadStarts + 1]

\* globals and DOM as the top-level statements leave them; without an
\* observer the fallback has already called initViz()
Construct(csv, geo, events, obs, domain, value) ==
    /\ csvSource = csv
    /\ geoSource = geo
    /\ eventsSource = events
    /\ hasObserver = obs
    /\ sliderDomain = domain
    /\ sliderValue = value
    /\ observing = obs
    /\ LET st == IF obs THEN [initialized |-> FALSE, pc |-> "idle", loadStarts |-> 0]
                 ELSE InitViz([initialized |-> FALSE, pc |-> "idle", loadStarts |-> 0])
       IN  /\ initialized = st.initialized
           /\ pc = st.pc
           /\ loadStarts = st.loadStarts
    /\ listeners = 0
    /\ worldData = <<>>
    /\ happinessData = <<>>
    /\ byISO = <<>>
    /\ factorMaxByKey = <<>>
    /\ eventsData = <<>>
    /\ selectedISO = NoISO
    /\ yearLabel = Null
    /\ map = [drawn |-> FALSE, year |-> Null, fill |-> <<>>]
    /\ panel = EmptyPanel

----------------------------------------------------------------------------
(* Lazy initialisation and load                                            *)

\* entries.forEach(e => { if (e.isIntersecting) { initViz(); io.disconnect(); } })
RECURSIVE ForEachEntry(_, _)
ForEachEntry(entries, st) ==
    IF entries = <<>> THEN st
    ELSE ForEachEntry(Tail(entries),
                      IF Head(entries) THEN InitViz(st) ELSE st)

\* the observer's callback with some entries (isIntersecting of each)
Intersect(entries) ==
    /\ observing
    /\ LET st == ForEachEntry(entries, [initialized |-> initialized, pc |-> pc,
                                        loadStarts |-> loadStarts])
       IN  /\ initialized' = st.initialized
           /\ pc' = st.pc
           /\ loadStarts' = st.loadStarts
    /\ observing' = ~(\E i \in 1..Len(entries) : entries[i])
    /\ UNCHANGED <<inputs, sliderValue, listeners, loaded, selectedISO, views>>

\* the first request resolving with the slider listener attached right away
CsvLoaded_AttachesListener ==
    /\ pc = "csv"
    /\ pc' = "geo"
    /\ listeners' = listeners + 1
    /\ UNCHANGED <<inputs, sliderValue, observing, initialized, loadStarts,
                   loaded, selectedISO, views>>

\* await d3.dsv(...) resolves
CsvLoaded ==
    /\ pc = "csv"
    /\ pc' = "geo"
    /\ UNCHANGED <<inputs, sliderValue, observing, initialized, loadStarts,
                   listeners, loaded, selectedISO, views>>

\* await d3.json("/data/world.geo.json") resolves
GeoLoaded ==
    /\ pc = "geo"
    /\ pc' = "events"
    /\ UNCHANGED <<inputs, sliderValue, observing, initialized, loadStarts,
                   listeners, loaded, selectedISO, views>>

\* await d3.json("/data/events.json") resolves: the rest of loadData and the
\* then-callback of initViz run without interruption
EventsLoaded ==
    /\ pc = "events"
    /\ LET d == LoadData(csvSource, geoSource)
       IN  /\ eventsData' = eventsSource
           /\ byISO' = d.byISO
           /\ worldData' = d.world
           /\ happinessData' = d.filtered
           /\ factorMaxByKey' = d.factorMax
           /\ map' = DrawMap(d.world, d.filtered, sliderValue)
    /\ listeners' = listeners + 1
    /\ pc' = "ready"
    /\ UNCHANGED <<inputs, sliderValue, observing, initialized, loadStarts,
                   selectedISO, yearLabel, panel>>

\* a rejection that finds the per-country index already assigned once the
\* first two requests are through
LoadFails_AfterIndex ==
    /\ pc \in {"csv", "geo", "events"}
    /\ pc' = "failed"
    /\ byISO' = IF pc = "events" THEN LoadData(csvSource, geoSource).byISO ELSE byISO
    /\ UNCHANGED <<inputs, sliderValue, observing, initialized, loadStarts,
                   listeners, worldData, happinessData, factorMaxByKey,
                   eventsData, selectedISO, views>>

\* one of the three requests rejects: loadData's promise rejects and the
\* then-callback never runs
LoadFails ==
    /\ pc \in {"csv", "geo", "events"}
    /\ pc' = "failed"
    /\ UNCHANGED <<inputs, sliderValue, observing, initialized, loadStarts,
                   listeners, loaded, selectedISO, views>>

----------------------------------------------------------------------------
(* Triggers                                                                *)

\* f ? f.properties.name : selectedISO, f the first feature of the selected code
DisplayNameOf(features, iso) ==
    LET f == Find(features, {i \in 1..Len(features) : features[i].iso_a3 = iso})
    IN  IF f # <<>> THEN f[1].name ELSE <<iso>>

\* the input listener without the refresh of the panel
OnSliderInput_MapOnly(year) ==
    /\ yearLabel' = Some(year)
    /\ map' = DrawMap(worldData, happinessData, year)
    /\ UNCHANGED <<selectedISO, panel>>

\* the slider's input listener, this.value = year
OnSliderInput(year) ==
    /\ yearLabel' = Some(year)
    /\ map' = DrawMap(worldData, happinessData, year)
    /\ panel' = IF selectedISO # NoISO
                THEN ShowCountryPanel(panel, byISO, factorMaxByKey, eventsData,
                                      year, selectedISO,
                                      DisplayNameOf(worldData, selectedISO))
                ELSE panel
    /\ UNCHANGED selectedISO

\* the user moves the slider to another year; the listener runs if attached
SliderInput(year) ==
    /\ year \in sliderDomain
    /\ year # sliderValue
    /\ sliderValue' = year
    /\ IF listeners > 0
       THEN OnSliderInput(year)
       ELSE UNCHANGED <<selectedISO, views>>
    /\ UNCHANGED <<inputs, lifecycle, loaded>>

\* the click listener clearing the selection when the country has no rows
OnClick_DropsUnknown(d) ==
    /\ selectedISO' = IF PanelGuard(byISO, d.iso_a3) THEN d.iso_a3 ELSE NoISO
    /\ panel' = ShowCountryPanel(panel, byISO, factorMaxByKey, eventsData,
                                 sliderValue, d.iso_a3, d.name)
    /\ UNCHANGED <<sliderValue, yearLabel, map>>

\* the click listener of the path bound to feature d
OnClick(d) ==
    /\ selectedISO' = d.iso_a3
    /\ panel' = ShowCountryPanel(panel, byISO, factorMaxByKey, eventsData,
                                 sliderValue, d.iso_a3, d.name)
    /\ UNCHANGED <<sliderValue, yearLabel, map>>

\* the user clicks the path of the i-th feature (paths exist once drawn)
Click(i) ==
    /\ map.drawn
    /\ i \in 1..Len(worldData)
    /\ OnClick(worldData[i])
    /\ UNCHANGED <<inputs, lifecycle, loaded>>

EntryLists == {<<TRUE>>, <<FALSE>>, <<TRUE, TRUE>>, <<FALSE, TRUE>>}

Next ==
    \/ \E entries \in EntryLists : Intersect(entries)
    \/ CsvLoaded
    \/ GeoLoaded
    \/ EventsLoaded
    \/ LoadFails
    \/ \E year \in sliderDomain : SliderInput(year)
    \/ \E i \in 1..Len(worldData) : Click(i)

----------------------------------------------------------------------------
(* Inputs                                                                  *)

AllNull == [k \in FactorKeySet |-> Null]

\* a row of the tabular source
RawRow(name, year, rank, ladder, f) ==
    [name |-> name, year |-> year, rank |-> rank, ladder |-> ladder, f |-> f]

RawFeature(name) == [name |-> name]

\* the sequences over S of length lo..hi
SeqsOf(S, lo, hi) == UNION {[1..n -> S] : n \in lo..hi}

NameA == <<"a">>
NameB == <<"b", Apos>>
NameX == <<"x">>

\* Interaction inputs: three features (two reconcile, one does not), up to
\* MaxRows rows of two countries, events for one country.
MainYears == {2015, 2020}
MainRows ==
    {RawRow(n, y, r, Some(5), AllNull) :
        n \in {NameA, NameB}, y \in MainYears, r \in {0, 1, 2}}
MainEvents == ("AAA" :> (2015 :> <<"e1", "e2">>))

InitMain ==
    \E csv \in SeqsOf(MainRows, 0, MaxRows), obs \in BOOLEAN :
        Construct(csv, <<RawFeature(NameA), RawFeature(NameB), RawFeature(NameX)>>,
                  MainEvents, obs, {2014, 2015, 2020}, 2020)

Spec == InitMain /\ [][Next]_vars

\* Lookup inputs: one country whose series has 1..MaxLen rows in any source
\* order; a row's rank is its position in the source.
LookupYears == {2015, 2017, 2020}
LookupQueries == {2014, 2015, 2016, 2017, 2020, 2025}

InitLookup ==
    \E ys \in SeqsOf(LookupYears, 1, MaxLen), obs \in BOOLEAN :
        Construct([i \in 1..Len(ys) |-> RawRow(NameA, ys[i], i, Some(5), AllNull)],
                  <<RawFeature(NameA)>>, <<>>, obs, LookupQueries, 2020)

SpecLookup == InitLookup /\ [][Next]_vars

----------------------------------------------------------------------------
(* Claims on the panel's lookup                                            *)

\* the panel shows a country and is in step with the handlers
PanelShown == pc = "ready" /\ panel.iso # NoISO

MinOf(S) == CHOOSE m \in S : \A n \in S : m <= n
MaxOf(S) == CHOOSE m \in S : \A n \in S : n <= m

\* rows is src sorted ascending by year with equal years in source order
\* (a lookup input's rank is its position in the source)
IsStableAscending(rows, src) ==
    /\ Len(rows) = Len(src)
    /\ Range(rows) = Range(src)
    /\ \A i, j \in 1..Len(rows) :
          i < j => \/ rows[i].year < rows[j].year
                   \/ rows[i].year = rows[j].year /\ rows[i].rank < rows[j].rank

\* the observation the stated policy picks from rows at year y: m is it
PolicyPicks(rows, y, m) ==
    LET exact == {i \in 1..Len(rows) : rows[i].year = y}
        below == {i \in 1..Len(rows) : rows[i].year < y}
    IN  IF exact # {} THEN m = rows[MinOf(exact)]
        ELSE IF below # {}
             THEN m \in Range(rows) /\ m.year = MaxOf({rows[i].year : i \in below})
             ELSE m \in Range(rows) /\ m.year = MaxOf({rows[i].year : i \in 1..Len(rows)})

\* C1: for every non-empty series, sorted ascending by year with duplicates in
\* source order, and every query year, the panel's observation is the first one
\* of the query year if there is one, else one of the largest year below the
\* query year, else one of the largest year of the series.
C1_LookupPolicy ==
    PanelShown =>
        /\ panel.spark # <<>>
        /\ IsStableAscending(panel.spark, byISO[panel.iso])
        /\ panel.marker # <<>>
        /\ PolicyPicks(panel.spark, sliderValue, panel.marker[1])

\* C1 witness: a series of several years, one of them twice, is looked up at a
\* year before all of them
C1_Witness ==
    /\ PanelShown
    /\ Len(panel.spark) = 3
    /\ Cardinality({panel.spark[i].year : i \in 1..3}) = 2
    /\ \A i \in 1..3 : sliderValue < panel.spark[i].year

SeriesYears == [i \in 1..Len(panel.spark) |-> panel.spark[i].year]

\* C2 (as stated): for the years {2015, 2017, 2020}, lookup(2014) is the 2015
\* observation, lookup(2016) the 2015 one, lookup(2020) the 2020 one and
\* lookup(2025) the 2020 one.
C2_EarliestWhenBeforeAll ==
    (PanelShown /\ SeriesYears = <<2015, 2017, 2020>>) =>
        /\ sliderValue = 2014 => panel.marker[1].year = 2015
        /\ sliderValue = 2016 => panel.marker[1].year = 2015
        /\ sliderValue = 2020 => panel.marker[1].year = 2020
        /\ sliderValue = 2025 => panel.marker[1].year = 2020

\* C2 (amended): for the years {2015, 2017, 2020}, lookup(2014) is the 2020
\* observation (the last of the series), lookup(2016) the 2015 one,
\* lookup(2020) the 2020 one and lookup(2025) the 2020 one.
C2_LatestWhenBeforeAll ==
    (PanelShown /\ SeriesYears = <<2015, 2017, 2020>>) =>
        /\ sliderValue = 2014 => panel.marker[1].year = 2020
        /\ sliderValue = 2016 => panel.marker[1].year = 2015
        /\ sliderValue = 2020 => panel.marker[1].year = 2020
        /\ sliderValue = 2025 => panel.marker[1].year = 2020

\* C2 witness: the series {2015, 2017, 2020} is looked up at 2014
C2_Witness ==
    PanelShown /\ SeriesYears = <<2015, 2017, 2020>> /\ sliderValue = 2014

----------------------------------------------------------------------------
(* Claims on the triggers and the views                                    *)

Ready == pc = "ready"

\* the selected country has at least one retained observation
SelectionHasRows == selectedISO # NoISO /\ selectedISO \in DOMAIN byISO

\* rows is src in ascending order of year
IsAscendingOf(rows, src) ==
    /\ Len(rows) = Len(src)
    /\ Range(rows) = Range(src)
    /\ \A i, j \in 1..Len(rows) : i < j => rows[i].year <= rows[j].year

\* the retained rows of a code in exactly one year, by position
RowsOfYear(iso, year) ==
    {j \in 1..Len(happinessData) :
        happinessData[j].iso3 = iso /\ happinessData[j].year = year}

\* the fill of a code when only a row of exactly this year colours it
ExactYearFill(iso, year) ==
    LET hits == RowsOfYear(iso, year)
    IN  IF hits = {} \/ happinessData[MaxOf(hits)].rank = 0
        THEN NeutralFill
        ELSE colorScale(happinessData[MaxOf(hits)].rank)

\* C3: in Ready, whenever the selected country has a retained observation,
\* the map is coloured for the slider's year and the panel shows the selected
\* country's observation resolved at that same year.
C3_RenderedConsistent ==
    (Ready /\ SelectionHasRows) =>
        /\ map.year = Some(sliderValue)
        /\ \A i \in 1..Len(worldData) :
              map.fill[i] = ExactYearFill(worldData[i].iso_a3, sliderValue)
        /\ panel.iso = selectedISO
        /\ IsAscendingOf(panel.spark, byISO[selectedISO])
        /\ panel.marker # <<>>
        /\ PolicyPicks(panel.spark, sliderValue, panel.marker[1])

\* C3 witness: the year was changed and a country with observations in two
\* different years is selected
C3_Witness ==
    /\ Ready
    /\ SelectionHasRows
    /\ yearLabel = Some(sliderValue)
    /\ Cardinality({byISO[selectedISO][i].year :
                       i \in 1..Len(byISO[selectedISO])}) = 2

\* C4 (as stated): every retained country's fill is the colour of the rank of
\* the observation the panel's lookup returns at the selected year; only a
\* country without any observation is neutral.
C4_MapFillUsesLookup ==
    Ready =>
        \A i \in 1..Len(worldData) :
            LET iso == worldData[i].iso_a3
            IN  map.fill[i] =
                    IF iso \in DOMAIN byISO
                    THEN colorScale(Lookup(SortedRows(byISO[iso]), sliderValue)[1].rank)
                    ELSE NeutralFill

\* C4 (amended): every feature's fill is the colour of the rank of the last
\* retained observation of its code in exactly the selected year, and neutral
\* when there is none in that year or its rank is 0.
C4_MapFillExactYear ==
    Ready =>
        /\ map.year = Some(sliderValue)
        /\ \A i \in 1..Len(worldData) :
              map.fill[i] = ExactYearFill(worldData[i].iso_a3, sliderValue)

\* C4 witness: the selected country has ranked observations but none in the
\* selected year: its feature is neutral while the panel shows one of them
C4_Witness ==
    /\ Ready
    /\ SelectionHasRows
    /\ RowsOfYear(selectedISO, sliderValue) = {}
    /\ panel.iso = selectedISO /\ panel.marker # <<>>
    /\ panel.marker[1].rank # 0
    /\ \E i \in 1..Len(worldData) :
          /\ worldData[i].iso_a3 = selectedISO
          /\ map.fill[i] = NeutralFill

\* C5: when the selected feature has no retained observation (no code, or a
\* code without rows), the panel shows its empty state and no country's data.
C5_EmptyStateOnMiss ==
    (Ready /\ ~SelectionHasRows) => (panel.iso = NoISO /\ panel.emptyNote)

\* C6: a year change sets the selected year and leaves the selected code, a
\* country selection sets the selected code to the clicked feature's code and
\* leaves the selected year.
C6_FrameEffects ==
    [][/\ \A y \in sliderDomain :
             SliderInput(y) => (sliderValue' = y /\ selectedISO' = selectedISO)
       /\ \A i \in 1..Len(worldData) :
             Click(i) => (selectedISO' = worldData[i].iso_a3
                          /\ sliderValue' = sliderValue)]_vars

\* C6 witness: after both triggers, on a feature without retained rows
C6_Witness ==
    /\ Ready
    /\ yearLabel = Some(sliderValue)
    /\ selectedISO # NoISO
    /\ selectedISO \notin DOMAIN byISO

----------------------------------------------------------------------------
(* Inputs of the aggregate, event and reconciliation claims                *)

MaxPeriodRows == 2   \* rows of one country's series in the period inputs

GdpOnly(v) == [k \in FactorKeySet |-> IF k = "gdp" THEN v ELSE Null]

\* Factor inputs: a row that does not reconcile, then up to MaxLen rows of one
\* country with a gdp value each and no other factor.
GdpChoices == {Null, Some(0 - 2), Some(0), Some(3), Some(7)}

InitFactor ==
    \E vs \in SeqsOf(GdpChoices, 0, MaxLen), obs \in BOOLEAN :
        Construct(<<RawRow(NameX, 2019, 1, Some(5), GdpOnly(Some(9)))>>
                    \o [i \in 1..Len(vs) |->
                           RawRow(NameA, 2019, i, Some(5), GdpOnly(vs[i]))],
                  <<RawFeature(NameA), RawFeature(NameX)>>, <<>>, obs,
                  {2019, 2020}, 2020)

SpecFactor == InitFactor /\ [][Next]_vars

\* Period inputs: one country with 1..MaxPeriodRows rows around the two
\* periods, and the series 2015..2019 with the ladder scores 1..5.
PeriodYears == {2014, 2015, 2019, 2020}
PeriodLadders == {Null, Some(0), Some(4)}
PeriodRows ==
    {RawRow(NameA, y, 1, l, AllNull) : y \in PeriodYears, l \in PeriodLadders}
OneToFive ==
    [i \in 1..5 |-> RawRow(NameA, 2014 + i, i, Some(i), AllNull)]

InitPeriod ==
    \E csv \in SeqsOf(PeriodRows, 1, MaxPeriodRows) \cup {OneToFive},
       obs \in BOOLEAN :
        Construct(csv, <<RawFeature(NameA)>>, <<>>, obs, {2019, 2020}, 2020)

SpecPeriod == InitPeriod /\ [][Next]_vars

\* Event inputs: one country with one observation; its event log has any
\* subset of three years, each with up to MaxTexts texts, or is missing.
EventYears == {2010, 2015, 2020}
EventTexts == <<"t1", "t2", "t3", "t4">>
EventLogs ==
    UNION {[ys -> {SubSeq(EventTexts, 1, n) : n \in 0..MaxTexts}] :
              ys \in SUBSET EventYears}

InitEvents ==
    \E events \in {("AAA" :> log) : log \in EventLogs} \cup {<<>>},
       obs \in BOOLEAN :
        Construct(<<RawRow(NameA, 2015, 1, Some(5), AllNull)>>,
                  <<RawFeature(NameA)>>, events, obs,
                  {2005, 2010, 2012, 2015, 2020}, 2020)

SpecEvents == InitEvents /\ [][Next]_vars

\* Reconciliation inputs: one tabular row and one polygon feature carrying the
\* same raw name, any name of up to MaxNameLen characters.
NameChars == {"a", "b", "c", Dot, Apos, RQuote, Space}

InitResolve ==
    \E name \in SeqsOf(NameChars, 0, MaxNameLen), obs \in BOOLEAN :
        Construct(<<RawRow(name, 2020, 1, Some(5), AllNull)>>,
                  <<RawFeature(name)>>, <<>>, obs, {2019, 2020}, 2020)

SpecResolve == InitResolve /\ [][Next]_vars

----------------------------------------------------------------------------
(* Claims on the aggregates                                                *)

\* the non-null values of a factor over the retained observations
PresentValues(k) ==
    {happinessData[i].f[k][1] :
        i \in {j \in 1..Len(happinessData) : happinessData[j].f[k] # Null}}

\* the values of a factor over the retained observations, a null read as 0
ZeroFilledValues(k) ==
    {IF happinessData[i].f[k] = Null THEN 0 ELSE happinessData[i].f[k][1] :
        i \in 1..Len(happinessData)}

GdpColumn == [i \in 1..Len(happinessData) |-> happinessData[i].f["gdp"]]

\* C7 (as stated): each factor's maximum is the maximum of its non-null values
\* over the retained observations, and is 1 exactly when all of them are null.
C7_MaxIgnoresNulls ==
    Ready =>
        \A k \in FactorKeySet :
            /\ PresentValues(k) # {} => factorMaxByKey[k] = MaxOf(PresentValues(k))
            /\ factorMaxByKey[k] = 1 <=> PresentValues(k) = {}

\* C7 (amended): each factor's maximum is the maximum of its values over the
\* retained observations with a null read as 0, and is 1 when that maximum is
\* 0 or nothing is retained; [3, null, 7] gives 7, all nulls give 1.
C7_MaxReadsNullAsZero ==
    Ready =>
        \A k \in FactorKeySet :
            factorMaxByKey[k] =
                IF ZeroFilledValues(k) = {} \/ MaxOf(ZeroFilledValues(k)) = 0
                THEN 1
                ELSE MaxOf(ZeroFilledValues(k))

\* C7 witness: the retained gdp values are a negative number and a null, and
\* another factor is null throughout
C7_Witness ==
    /\ Ready
    /\ GdpColumn = <<Some(0 - 2), Null>>
    /\ PresentValues("social") = {}
    /\ factorMaxByKey["gdp"] = 1

\* the observations of rows that count for the period lo..hi (hi = <<>>: open)
Qualifying(rows, lo, hi) ==
    {i \in 1..Len(rows) :
        /\ lo <= rows[i].year
        /\ hi # <<>> => rows[i].year <= hi[1]
        /\ rows[i].ladder # Null}

\* the sum of the ladder scores of the rows at the positions Q
LadderSum(rows, Q) ==
    LET acc[n \in 0..Len(rows)] ==
            IF n = 0 THEN 0
            ELSE acc[n - 1] + (IF n \in Q THEN rows[n].ladder[1] ELSE 0)
    IN  acc[Len(rows)]

\* the bar of a period, none when no observation qualifies
ExpectedBar(rows, period, lo, hi) ==
    LET Q == Qualifying(rows, lo, hi)
    IN  IF Q = {} THEN <<>>
        ELSE <<[period |-> period,
                value |-> Some([num |-> LadderSum(rows, Q), den |-> Cardinality(Q)])]>>

\* C8: the pre (2015..2019) and post (2020..) averages shown are the means of
\* the non-null ladder scores of the observations in the range; a period without
\* such an observation has no bar (also when its observations all have a null
\* score), and the no-data state is shown exactly when both have none.
C8_PeriodAverages ==
    PanelShown =>
        LET rows == byISO[panel.iso]
            bars == ExpectedBar(rows, "pre", 2015, <<2019>>)
                      \o ExpectedBar(rows, "post", 2020, <<>>)
        IN  /\ panel.covid.bars = bars
            /\ panel.covid.nodata <=> (bars = <<>>)
            /\ \A i \in 1..Len(panel.covid.bars) :
                  panel.covid.bars[i].value # Null

\* C8 witness: the pre period has observations, all with a null score, and
\* the post period has a score
C8_Witness ==
    /\ PanelShown
    /\ \E i \in 1..Len(panel.spark) :
          panel.spark[i].year \in 2015..2019 /\ panel.spark[i].ladder = Null
    /\ Qualifying(panel.spark, 2015, <<2019>>) = {}
    /\ Qualifying(panel.spark, 2020, <<>>) # {}
    /\ Len(panel.covid.bars) = 1

----------------------------------------------------------------------------
(* Claims on the event timeline                                            *)

\* the panel shows a country whose event log has at least one entry
EventsShown ==
    /\ PanelShown
    /\ panel.iso \in DOMAIN eventsData
    /\ DOMAIN eventsData[panel.iso] # {}

\* C9: for a country with at least one event entry, the timeline shows the
\* entries of the years up to the active year, or all entries when there is
\* none, in descending order of year and never empty; a block is active exactly
\* when its year is the active year, and only the first text of an active
\* block is the headline.
C9_VisibleEvents ==
    EventsShown =>
        LET log == eventsData[panel.iso]
            upTo == {y \in DOMAIN log : y <= sliderValue}
            shown == IF upTo # {} THEN upTo ELSE DOMAIN log
            blocks == panel.history.blocks
        IN  /\ ~panel.history.note
            /\ blocks # <<>>
            /\ Len(blocks) = Cardinality(shown)
            /\ {blocks[i].y : i \in 1..Len(blocks)} = shown
            /\ \A i, j \in 1..Len(blocks) : i < j => blocks[i].y > blocks[j].y
            /\ \A i \in 1..Len(blocks) :
                  /\ blocks[i].active <=> (blocks[i].y = sliderValue)
                  /\ Len(blocks[i].texts) = Len(log[blocks[i].y])
                  /\ \A t \in 1..Len(blocks[i].texts) :
                        /\ blocks[i].texts[t].txt = log[blocks[i].y][t]
                        /\ blocks[i].texts[t].headline
                              <=> (blocks[i].y = sliderValue /\ t = 1)

\* C9 witness: three annotated years, the active year before all of them
C9_Witness ==
    /\ EventsShown
    /\ DOMAIN eventsData[panel.iso] = {2010, 2015, 2020}
    /\ sliderValue = 2005
    /\ Len(panel.history.blocks) = 3

----------------------------------------------------------------------------
(* Claims on the name reconciliation                                       *)

\* the code of a raw name when both the trimmed name and its normalised form
\* are tried
ResolveBoth(rawName) ==
    LET name == Trim(rawName)
    IN  IF name \in DOMAIN countryToISO3 THEN countryToISO3[name]
        ELSE IF NormalizeName(name) \in DOMAIN countryToISO3
             THEN countryToISO3[NormalizeName(name)]
             ELSE NoISO

\* the code of a raw name when only the trimmed name is tried
ResolveExact(rawName) ==
    LET name == Trim(rawName)
    IN  IF name \in DOMAIN countryToISO3 THEN countryToISO3[name] ELSE NoISO

\* the code of a raw name, with or without the normalised second try
Resolve(rawName, normalising) ==
    IF normalising THEN ResolveBoth(rawName) ELSE ResolveExact(rawName)

\* the tabular rows are retained with the codes Resolve gives them
RowsResolved(normalising) ==
    happinessData =
        SelectSeq([i \in 1..Len(csvSource) |->
                      [country |-> Trim(csvSource[i].name),
                       year |-> csvSource[i].year, rank |-> csvSource[i].rank,
                       ladder |-> csvSource[i].ladder, f |-> csvSource[i].f,
                       iso3 |-> Resolve(csvSource[i].name, normalising)]],
                  LAMBDA d : /\ d.iso3 # NoISO
                             /\ \E j \in 1..Len(worldData) :
                                   worldData[j].iso_a3 = d.iso3)

\* the polygon features carry the codes Resolve gives them
FeaturesResolved(normalising) ==
    /\ Len(worldData) = Len(geoSource)
    /\ \A i \in 1..Len(worldData) :
          worldData[i].iso_a3 = Resolve(geoSource[i].name, normalising)

\* C10 (as stated): names from both sources resolve to the code of the trimmed
\* name when it is a key, else to the code of the normalised name when that is
\* a key, else to none.
C10_BothSourcesNormalize ==
    Ready => (FeaturesResolved(TRUE) /\ RowsResolved(TRUE))

\* C10 (amended): a polygon feature's name resolves as stated; a tabular row's
\* name resolves to the code of the trimmed name when it is a key and to none
\* otherwise, without normalisation.
C10_OnlyFeaturesNormalize ==
    Ready => (FeaturesResolved(TRUE) /\ RowsResolved(FALSE))

\* C10 witness: a name that is a key only once normalised gives the feature
\* its code while the row of the same name is dropped
C10_Witness ==
    /\ Ready
    /\ Len(geoSource) = 1 /\ Len(csvSource) = 1
    /\ csvSource[1].name = geoSource[1].name
    /\ Trim(geoSource[1].name) \notin DOMAIN countryToISO3
    /\ worldData[1].iso_a3 # NoISO
    /\ happinessData = <<>>

----------------------------------------------------------------------------
(* Claims on the lifecycle                                                 *)

\* the globals and views as the module's top level leaves them
NothingLoaded ==
    /\ worldData = <<>>
    /\ happinessData = <<>>
    /\ byISO = <<>>
    /\ factorMaxByKey = <<>>
    /\ eventsData = <<>>

NothingDrawn ==
    /\ ~map.drawn
    /\ map.fill = <<>>
    /\ yearLabel = Null
    /\ panel = EmptyPanel

\* C11: however the visibility signal fires (several intersecting entries in
\* one callback, callbacks without an intersecting entry before it, or the
\* fallback without observer), loadData is started at most once, the slider
\* listener is attached at most once, and Ready is entered by that one load.
C11_InitialisedOnce ==
    /\ loadStarts <= 1
    /\ listeners <= 1
    /\ initialized <=> loadStarts = 1
    /\ Ready <=> listeners = 1

\* C11 witness: Ready was reached through the observer, which is disconnected
C11_Witness ==
    /\ Ready
    /\ hasObserver /\ ~observing
    /\ loadStarts = 1 /\ listeners = 1

C13_NoPartialInitialisation ==
    /\ [](pc = "failed" =>
            /\ listeners = 0
            /\ selectedISO = NoISO
            /\ NothingDrawn
            /\ NothingLoaded)
    /\ [][pc = "failed" => pc' = "failed"]_vars

\* C13 witness: the load has failed and the slider was moved afterwards or
\* before
C13_Witness ==
    /\ pc = "failed"
    /\ sliderValue # 2020
    /\ csvSource # <<>>

----------------------------------------------------------------------------
(* Claims on the join of the two sources                                   *)

MaxFeatures == 2   \* features of the polygon collection in the join inputs

NameC == <<"c", Dot>>

\* Join inputs: rows and features drawn independently, so that a row's country
\* can be in the dictionary without a feature of that code, and a feature can
\* be without a code.
JoinRows == {RawRow(n, 2020, 1, Some(5), AllNull) : n \in {NameA, NameC, NameX}}

JoinFeatures == {RawFeature(n) : n \in {NameA, NameB, NameX}}

InitJoin ==
    \E csv \in SeqsOf(JoinRows, 0, MaxRows),
       geo \in SeqsOf(JoinFeatures, 1, MaxFeatures), obs \in BOOLEAN :
        Construct(csv, geo, <<>>, obs, {2019, 2020}, 2020)

SpecJoin == InitJoin /\ [][Next]_vars

\* the row has a code, and a feature of the loaded collection has that code
RowReconciled(d) ==
    /\ d.iso3 # NoISO
    /\ \E i \in 1..Len(worldData) : worldData[i].iso_a3 = d.iso3

RowsReconciled(rows) == \A i \in 1..Len(rows) : RowReconciled(rows[i])

\* the features bound to the map's paths: one fill per bound feature
BoundFeatures == SubSeq(worldData, 1, Len(map.fill))

\* C14 as stated: after load every retained row and every feature bound to
\* the map has a reconciled code that belongs to a geometry entry.
C14_RowsAndFeaturesReconciled ==
    Ready =>
        /\ RowsReconciled(happinessData)
        /\ \A i \in 1..Len(BoundFeatures) : BoundFeatures[i].iso_a3 # NoISO

\* C14 as the code has it: after load the retained rows are exactly the
\* source rows whose country has a code that a feature carries, the index
\* groups those rows by code and the factor maxima are taken over them; the
\* features are all kept and all bound to the map, with or without a code; no
\* later trigger changes the loaded structures or the bound features.
C14_RowsReconciledFeaturesKept ==
    /\ [](Ready =>
            /\ RowsReconciled(happinessData)
            /\ happinessData =
                 SelectSeq([i \in 1..Len(csvSource) |-> LoadRow(csvSource[i])],
                           RowReconciled)
            /\ \A iso \in DOMAIN byISO :
                  /\ byISO[iso] = SelectSeq(happinessData, LAMBDA d : d.iso3 = iso)
                  /\ byISO[iso] # <<>>
            /\ \A i \in 1..Len(happinessData) : happinessData[i].iso3 \in DOMAIN byISO
            /\ factorMaxByKey = FactorMax(happinessData)
            /\ worldData = [i \in 1..Len(geoSource) |-> LoadFeature(geoSource[i])]
            /\ BoundFeatures = worldData)
    /\ [][Ready => /\ UNCHANGED loaded
                   /\ Len(map.fill') = Len(map.fill)]_vars

\* C14 witness: after load and a later trigger, a row without a code and a row
\* whose code no feature carries were dropped, and a feature without a code is
\* bound to the map
C14_Witness ==
    /\ Ready
    /\ sliderValue # 2020
    /\ \E i \in 1..Len(csvSource) : LoadRow(csvSource[i]).iso3 = NoISO
    /\ \E i \in 1..Len(csvSource) :
          /\ LoadRow(csvSource[i]).iso3 # NoISO
          /\ ~RowReconciled(LoadRow(csvSource[i]))
    /\ \E i \in 1..Len(BoundFeatures) : BoundFeatures[i].iso_a3 = NoISO

====
